---- MODULE Spec2Model ----
(***************************************************************************)
(* Classification and rewrite of SQL text for native execution:           *)
(*   mindsdb/utilities/json_detector.py                                    *)
(*   mindsdb/utilities/native_query_transformer.py                         *)
(*   mindsdb/interfaces/skills/custom/text2sql/mindsdb_sql_tool.py         *)
(*                                                                         *)
(* A text is a sequence of characters, each character a one-character      *)
(* string; the backtick, which a TLA+ string cannot hold, is the value     *)
(* Backtick.  The functions of the source are operators over such          *)
(* sequences, written the way Python's str and re evaluate them.           *)
(***************************************************************************)
EXTENDS Naturals, Sequences, FiniteSets

VARIABLES
    pc,            \* position of the running function
    query,         \* _run / _clean_query: parameter `query`, then the loop variable
    clean_query,   \* _run: local `clean_query`
    option,        \* _run: number of values the _query_options generator has yielded
    parse_calls,   \* the calls made to the external parse_sql, in order
    error,         \* _run: local `error`
    result,        \* _run: the value returned
    sql_query,     \* parameter `sql_query` of the utilities' functions
    returned,      \* value returned by the function applied to sql_query
    returned2      \* value returned by a second application

vars == <<pc, query, clean_query, option, parse_calls, error, result,
          sql_query, returned, returned2>>

\* The backtick character.
Backtick == "<backtick>"

\* An unbound local / a value not yet returned (no text holds this element).
None == <<"<None>">>

-----------------------------------------------------------------------------
(* Python str operations *)

\* s.startswith(lit, p - 1): lit occurs in s at (1-based) position p
MatchAt(s, p, lit) ==
    /\ p >= 1
    /\ p + Len(lit) - 1 <= Len(s)
    /\ \A i \in 1..Len(lit) : s[p + i - 1] = lit[i]

\* s[p-1:] for a 1-based position p
From(s, p) == IF p > Len(s) THEN <<>> ELSE SubSeq(s, p, Len(s))

\* the least element of a non-empty set of numbers
Least(P) == CHOOSE p \in P : \A q \in P : p <= q

\* s.find(lit, p - 1) + 1: the first position >= p where lit occurs, 0 if none
Find(s, lit, p) ==
    LET P == {q \in p..(Len(s) + 1) : MatchAt(s, q, lit)}
    IN  IF P = {} THEN 0 ELSE Least(P)

\* lit in s
Contains(s, lit) == Find(s, lit, 1) # 0

\* s.replace(old, new): leftmost non-overlapping occurrences, old non-empty
RECURSIVE replace(_, _, _)
replace(s, old, new) ==
    LET p == Find(s, old, 1)
    IN  IF p = 0 THEN s
        ELSE SubSeq(s, 1, p - 1) \o new \o replace(From(s, p + Len(old)), old, new)

\* str.isspace for the characters in use
IsSpace(c) == c \in {" ", "\n", "\t"}

\* the number of consecutive non-whitespace characters of s from position p on
NonSpaceRun(s, p) ==
    Least({n \in 0..(Len(s) + 1) : p + n > Len(s) \/ IsSpace(s[p + n])})

\* s.split(): the maximal runs of non-whitespace characters
RECURSIVE split(_)
split(s) ==
    IF s = <<>> THEN <<>>
    ELSE IF IsSpace(Head(s)) THEN split(Tail(s))
    ELSE LET n == NonSpaceRun(s, 1)
         IN  <<SubSeq(s, 1, n)>> \o split(From(s, n + 1))

\* sep.join(words)
RECURSIVE join(_, _)
join(sep, words) ==
    IF words = <<>> THEN <<>>
    ELSE IF Len(words) = 1 THEN words[1]
    ELSE words[1] \o sep \o join(sep, Tail(words))

\* s.strip()
RECURSIVE strip(_)
strip(s) ==
    IF s = <<>> THEN s
    ELSE IF IsSpace(Head(s)) THEN strip(Tail(s))
    ELSE IF IsSpace(s[Len(s)]) THEN strip(SubSeq(s, 1, Len(s) - 1))
    ELSE s

LowerCase == <<"a", "b", "c", "d", "e", "f", "g", "h", "i", "j", "k", "l", "m", "n", "o", "p", "q", "r", "s", "t", "u", "v", "w", "x", "y", "z">>
UpperCase == <<"A", "B", "C", "D", "E", "F", "G", "H", "I", "J", "K", "L", "M", "N", "O", "P", "Q", "R", "S", "T", "U", "V", "W", "X", "Y", "Z">>
Digits == <<"0", "1", "2", "3", "4", "5", "6", "7", "8", "9">>

InSeq(c, chars) == \E i \in DOMAIN chars : chars[i] = c
IndexOf(c, chars) == CHOOSE i \in DOMAIN chars : chars[i] = c

\* s.upper(), s.lower()
upper(s) == [i \in DOMAIN s |->
               IF InSeq(s[i], LowerCase) THEN UpperCase[IndexOf(s[i], LowerCase)] ELSE s[i]]
lower(s) == [i \in DOMAIN s |->
               IF InSeq(s[i], UpperCase) THEN LowerCase[IndexOf(s[i], UpperCase)] ELSE s[i]]

\* the regular expression class \w, and [a-zA-Z0-9_], which agree on ASCII
IsWord(c) == InSeq(c, LowerCase) \/ InSeq(c, UpperCase) \/ InSeq(c, Digits) \/ c = "_"

\* the length of the longest run of \w characters of s from position p on: what
\* a greedy \w+ or [a-zA-Z0-9_]+ takes when what follows it cannot start with \w
WordRun(s, p) ==
    Least({n \in 0..(Len(s) + 1) : p + n > Len(s) \/ ~IsWord(s[p + n])})

-----------------------------------------------------------------------------
(* Bounded sets of input texts: every concatenation of at most n pieces *)

RECURSIVE Concat(_)
Concat(pieces) == IF pieces = <<>> THEN <<>> ELSE Head(pieces) \o Concat(Tail(pieces))

Texts(Pieces, n) == {Concat(ps) : ps \in UNION {[1..k -> Pieces] : k \in 0..n}}

-----------------------------------------------------------------------------
(* mindsdb_sql_tool.py: MindsDBSQLParserTool._clean_query *)

Fence == <<Backtick, Backtick, Backtick>>
FenceSql == <<"s", "q", "l">>

\* re.sub(r'```(sql)?', '', query) with count=1: only the first match goes
CleanQueryFirstOnly(q) ==
    LET p == Find(q, Fence, 1)
    IN  IF p = 0 THEN q
        ELSE LET e == IF MatchAt(q, p + Len(Fence), FenceSql)
                      THEN p + Len(Fence) + Len(FenceSql)
                      ELSE p + Len(Fence)
             IN  SubSeq(q, 1, p - 1) \o From(q, e)

\* re.sub(r'```sql', '', query): the fence only when `sql` follows it
CleanQuerySqlFenceOnly(q) == replace(q, Fence \o FenceSql, <<>>)

\* re.sub(r'```(sql)?', '', query): each leftmost non-overlapping match of three
\* backticks, with the `sql` that follows it when there is one (the optional
\* group is greedy), is replaced by the empty text
RECURSIVE CleanQuery(_)
CleanQuery(q) ==
    LET p == Find(q, Fence, 1)
    IN  IF p = 0 THEN q
        ELSE LET e == IF MatchAt(q, p + Len(Fence), FenceSql)
                      THEN p + Len(Fence) + Len(FenceSql)
                      ELSE p + Len(Fence)
             IN  SubSeq(q, 1, p - 1) \o CleanQuery(From(q, e))

-----------------------------------------------------------------------------
(* Specification SpecClean: _clean_query applied to a text, then to its result *)

MaxCleanPieces == 6
CleanPieces == {<<Backtick>>, <<"s", "q", "l">>, <<"s">>, <<"x">>}

InitClean ==
    /\ pc = "clean"
    /\ query \in Texts(CleanPieces, MaxCleanPieces)
    /\ clean_query = None
    /\ returned = None
    /\ option = 0 /\ parse_calls = <<>> /\ error = None /\ result = None
    /\ sql_query = None /\ returned2 = None

Clean ==
    /\ pc = "clean"
    /\ clean_query' = CleanQuery(query)
    /\ pc' = "clean_again"
    /\ UNCHANGED <<query, option, parse_calls, error, result, sql_query, returned, returned2>>

CleanAgain ==
    /\ pc = "clean_again"
    /\ returned' = CleanQuery(clean_query)
    /\ pc' = "cleaned_twice"
    /\ UNCHANGED <<query, clean_query, option, parse_calls, error, result, sql_query, returned2>>

NextClean == Clean \/ CleanAgain

SpecClean == InitClean /\ [][NextClean]_vars

\* C5: cleaning is idempotent, clean(clean(x)) = clean(x) for every text x, and
\* a cleaned text holds no three consecutive backticks.
C5_CleanIdempotent ==
    /\ pc \in {"clean_again", "cleaned_twice"} => ~Contains(clean_query, Fence)
    /\ pc = "cleaned_twice" => returned = clean_query

\* a text where removing one fence brings backticks together, cleaned twice
C5_Witness ==
    /\ pc = "cleaned_twice"
    /\ Contains(query, Fence)
    /\ clean_query # query
    /\ Contains(clean_query, <<Backtick, Backtick>>)

-----------------------------------------------------------------------------
(* native_query_transformer.py: transform_query *)

NoMatch == [start |-> 0]

FromKeyword == <<"F", "R", "O", "M", " ">>

\* a db_pattern that takes any FROM <identifier>, qualified or not
db_pattern_unqualified(s, p) ==
    LET a  == p + Len(FromKeyword)
        n1 == WordRun(s, a)
    IN  IF MatchAt(s, p, FromKeyword) /\ n1 >= 1
        THEN [start |-> p, end |-> a + n1,
              groups |-> <<SubSeq(s, a, a + n1 - 1), <<>>>>]
        ELSE NoMatch

\* db_pattern = r"FROM ([a-zA-Z0-9_]+)\.([a-zA-Z0-9_]+)" tried at position p.
\* Both groups are greedy runs; as the character after the first group must be
\* a dot and the pattern ends with the second group, each run is the longest one.
db_pattern(s, p) ==
    LET a  == p + Len(FromKeyword)
        n1 == WordRun(s, a)
        b  == a + n1 + 1
        n2 == WordRun(s, b)
    IN  IF /\ MatchAt(s, p, FromKeyword)
           /\ n1 >= 1
           /\ MatchAt(s, a + n1, <<".">>)
           /\ n2 >= 1
        THEN [start |-> p, end |-> b + n2,
              groups |-> <<SubSeq(s, a, a + n1 - 1), SubSeq(s, b, b + n2 - 1)>>]
        ELSE NoMatch

\* re.findall(db_pattern, s) from position p on: the groups of the leftmost
\* non-overlapping matches, in order
RECURSIVE findall_db(_, _)
findall_db(s, p) ==
    LET P == {q \in p..Len(s) : db_pattern(s, q) # NoMatch}
    IN  IF P = {} THEN <<>>
        ELSE LET m == db_pattern(s, Least(P))
             IN  <<m.groups>> \o findall_db(s, m.end)

\* re.sub(f"{database_name}\\.([a-zA-Z0-9_]+)", r"\1", s): each leftmost
\* non-overlapping match of the name, a dot and the longest run of identifier
\* characters is replaced by that run.  The name holds no regex metacharacter.
RECURSIVE sub_qualifier(_, _)
sub_qualifier(s, database_name) ==
    LET lit == database_name \o <<".">>
        P == {q \in 1..Len(s) : MatchAt(s, q, lit) /\ WordRun(s, q + Len(lit)) >= 1}
    IN  IF P = {} THEN s
        ELSE LET q == Least(P)
                 n == WordRun(s, q + Len(lit))
             IN  SubSeq(s, 1, q - 1) \o SubSeq(s, q + Len(lit), q + Len(lit) + n - 1)
                    \o sub_qualifier(From(s, q + Len(lit) + n), database_name)

TripleQuote == <<"\"", "\"", "\"">>
SelectStarFrom == <<"S", "E", "L", "E", "C", "T", " ", "*", " ", "F", "R", "O", "M", " ">>

\* transform_query without the removal of the triple quotes and semicolons
transform_query_unstripped(sql) ==
    LET collapsed == join(<<" ">>, split(sql))
        matches == findall_db(collapsed, 1)
    IN  IF matches = <<>> THEN collapsed
        ELSE LET database_name == matches[1][1]
             IN  SelectStarFrom \o database_name \o <<"(">>
                    \o sub_qualifier(collapsed, database_name) \o <<")", ";">>

transform_query(sql) ==
    LET collapsed == join(<<" ">>, split(sql))
        matches == findall_db(collapsed, 1)
    IN  IF matches = <<>> THEN collapsed
        ELSE LET database_name == matches[1][1]
                 transformed_query ==
                     replace(replace(sub_qualifier(collapsed, database_name),
                                     TripleQuote, <<>>),
                             <<";">>, <<>>)
             IN  SelectStarFrom \o database_name \o <<"(">> \o transformed_query \o <<")", ";">>

-----------------------------------------------------------------------------
(* Specification SpecTransform: transform_query applied to a text, then to its result *)

MaxTransformPieces == 4
TransformPieces ==
    {<<"F", "R", "O", "M", " ">>, <<"a", ".", "t">>, <<" ", "b", "a", ".", "u">>, <<" ", "F", "R", "O", "M", " ", "b", ".", "u">>, <<";">>, <<"\"", "\"", "\"">>, <<" ", " ">>}

ShopExample == <<"S", "E", "L", "E", "C", "T", " ", "*", " ", "F", "R", "O", "M", " ", "s", "h", "o", "p", ".", "o", "r", "d", "e", "r", "s", " ", "W", "H", "E", "R", "E", " ", "i", "d", " ", "=", " ", "1">>
MultiLineExample == <<"S", "E", "L", "E", "C", "T", "\n", " ", " ", "t", "-", ">", ">", "'", "x", "'", ";", " ", " ", "F", "R", "O", "M", " ", "d", "b", "1", ".", "t", ",", " ", "d", "b", "1", ".", "u", "\n">>

InitTransform ==
    /\ pc = "transform"
    /\ sql_query \in Texts(TransformPieces, MaxTransformPieces)
                        \cup {ShopExample, MultiLineExample}
    /\ returned = None /\ returned2 = None
    /\ query = None /\ clean_query = None
    /\ option = 0 /\ parse_calls = <<>> /\ error = None /\ result = None

Transform ==
    /\ pc = "transform"
    /\ returned' = transform_query(sql_query)
    /\ pc' = "transform_again"
    /\ UNCHANGED <<query, clean_query, option, parse_calls, error, result, sql_query, returned2>>

TransformAgain ==
    /\ pc = "transform_again"
    /\ returned2' = transform_query(returned)
    /\ pc' = "transformed_twice"
    /\ UNCHANGED <<query, clean_query, option, parse_calls, error, result, sql_query, returned>>

NextTransform == Transform \/ TransformAgain

SpecTransform == InitTransform /\ [][NextTransform]_vars

(* What the claims about transform_query speak of, stated over positions of the text *)

\* the whitespace-collapsed text
Collapsed(s) == join(<<" ">>, split(s))

\* `FROM <identifier>.<identifier>` occurs at position p
QualifiedFromAt(s, p) ==
    /\ MatchAt(s, p, FromKeyword)
    /\ \E d \in (p + Len(FromKeyword) + 1)..(Len(s) - 1) :
          /\ s[d] = "."
          /\ \A i \in (p + Len(FromKeyword))..(d - 1) : IsWord(s[i])
          /\ IsWord(s[d + 1])

HasQualifiedFrom(s) == \E p \in 1..Len(s) : QualifiedFromAt(s, p)

\* the first identifier of the first `FROM <identifier>.<identifier>`
FirstDatabase(s) ==
    LET p == Least({q \in 1..Len(s) : QualifiedFromAt(s, q)})
        a == p + Len(FromKeyword)
    IN  SubSeq(s, a, Find(s, <<".">>, a) - 1)

\* the starts of the occurrences taken from left to right without overlap, where
\* occ[q] is the length of the occurrence at position q (0 when there is none)
Starts(occ) ==
    LET st[q \in DOMAIN occ] ==
            /\ occ[q] > 0
            /\ \A r \in 1..(q - 1) : st[r] => r + occ[r] <= q
    IN  {q \in DOMAIN occ : st[q]}

\* s without the characters at the positions D
Deleted(s, D) ==
    LET K == (1..Len(s)) \ D
        nth(i) == CHOOSE k \in K : Cardinality({j \in K : j <= k}) = i
    IN  [i \in 1..Cardinality(K) |-> s[nth(i)]]

\* s with the qualifier `db.` taken off every occurrence of `db.<identifier>`
Unqualified(s, db) ==
    LET lit == db \o <<".">>
        occ == [q \in 1..Len(s) |->
                  IF MatchAt(s, q, lit) /\ q + Len(lit) <= Len(s) /\ IsWord(s[q + Len(lit)])
                  THEN Len(lit) + WordRun(s, q + Len(lit))
                  ELSE 0]
    IN  Deleted(s, UNION {q..(q + Len(lit) - 1) : q \in Starts(occ)})

\* s with every occurrence of lit taken out
Without(s, lit) ==
    LET occ == [q \in 1..Len(s) |-> IF MatchAt(s, q, lit) THEN Len(lit) ELSE 0]
    IN  Deleted(s, UNION {q..(q + Len(lit) - 1) : q \in Starts(occ)})

WrappedBody(s) == Without(Without(Unqualified(s, FirstDatabase(s)), TripleQuote), <<";">>)

Applied == pc \in {"transform_again", "transformed_twice"}

QualifiedRefs(s) ==
    {<<SubSeq(s, a, d - 1), SubSeq(s, d + 1, d + WordRun(s, d + 1))>> :
        <<a, d>> \in {ad \in (1..Len(s)) \X (2..(Len(s) - 1)) :
                        /\ ad[1] < ad[2]
                        /\ s[ad[2]] = "."
                        /\ IsWord(s[ad[2] + 1])
                        /\ \A i \in ad[1]..(ad[2] - 1) : IsWord(s[i])
                        /\ (ad[1] = 1 \/ ~IsWord(s[ad[1] - 1]))}}

\* C4: a qualified reference to a database other than the first-encountered one
\* is in the wrapped body as it was in the whitespace-collapsed input.
C4_OtherDatabasesUnchanged ==
    Applied /\ HasQualifiedFrom(Collapsed(sql_query)) =>
        \A r \in QualifiedRefs(Collapsed(sql_query)) :
            r[1] # FirstDatabase(Collapsed(sql_query)) =>
                Contains(returned, r[1] \o <<".">> \o r[2])

\* outer is a wrapper call whose body holds the head of the wrapper call inner
Nests(outer, inner) ==
    /\ MatchAt(outer, 1, SelectStarFrom)
    /\ MatchAt(outer, Len(outer) - 1, <<")", ";">>)
    /\ \E n \in 1..Len(inner) :
          /\ inner[n] = "("
          /\ \A i \in (Len(SelectStarFrom) + 1)..(n - 1) : IsWord(inner[i])
          /\ Find(outer, SubSeq(inner, 1, n), Len(SelectStarFrom) + 1) # 0

Rewritten == HasQualifiedFrom(Collapsed(sql_query))

\* C9 as claimed: a second application always nests a further wrapper around a
\* query that the first application wrapped, and so differs from the first result.
C9_RewrapAlwaysNests ==
    pc = "transformed_twice" /\ Rewritten =>
        returned2 # returned /\ Nests(returned2, returned)

\* C9 as amended: a second application nests a further wrapper exactly when the
\* wrapped query, its whitespace collapsed, still holds a
\* `FROM <identifier>.<identifier>`; otherwise it
\* returns the wrapped query with nothing but its whitespace collapsed, no
\* wrapper added.
C9_RewrapNestsOnlyIfStillQualified ==
    pc = "transformed_twice" /\ Rewritten =>
        IF HasQualifiedFrom(Collapsed(returned))
        THEN returned2 # returned /\ Nests(returned2, returned)
        ELSE returned2 = Collapsed(returned) /\ ~Nests(returned2, returned)

\* a query over two databases, wrapped twice
C9_Witness ==
    /\ pc = "transformed_twice"
    /\ Rewritten
    /\ HasQualifiedFrom(Collapsed(returned))
    /\ returned2 # returned
    /\ Nests(returned2, returned)

-----------------------------------------------------------------------------
(* json_detector.py: analyze_json_operations, has_json *)

\* the keys of json_operators, in the order of the dict
json_operators == <<<<"-", ">", ">">>, <<"-", ">">>, <<"#", ">">>, <<"#", ">", ">">>, <<"@", ">">>, <<"<", "@">>, <<"?">>, <<"?", "|">>, <<"?", "&">>>>

json_functions ==
    <<<<"j", "s", "o", "n", "_", "a", "r", "r", "a", "y", "_", "e", "l", "e", "m", "e", "n", "t", "s">>, <<"j", "s", "o", "n", "b", "_", "a", "r", "r", "a", "y", "_", "e", "l", "e", "m", "e", "n", "t", "s">>, <<"j", "s", "o", "n", "_", "a", "r", "r", "a", "y", "_", "e", "l", "e", "m", "e", "n", "t", "s", "_", "t", "e", "x", "t">>,
      <<"j", "s", "o", "n", "_", "e", "x", "t", "r", "a", "c", "t", "_", "p", "a", "t", "h">>, <<"j", "s", "o", "n", "_", "o", "b", "j", "e", "c", "t">>, <<"j", "s", "o", "n", "_", "b", "u", "i", "l", "d", "_", "o", "b", "j", "e", "c", "t">>, <<"j", "s", "o", "n", "_", "b", "u", "i", "l", "d", "_", "a", "r", "r", "a", "y">>,
      <<"j", "s", "o", "n", "_", "p", "o", "p", "u", "l", "a", "t", "e", "_", "r", "e", "c", "o", "r", "d">>, <<"j", "s", "o", "n", "_", "t", "y", "p", "e", "o", "f">>, <<"j", "s", "o", "n", "_", "s", "t", "r", "i", "p", "_", "n", "u", "l", "l", "s">>, <<"j", "s", "o", "n", "b", "_", "s", "e", "t">>,
      <<"j", "s", "o", "n", "b", "_", "i", "n", "s", "e", "r", "t">>>>

CastJson == <<":", ":", "j", "s", "o", "n">>
CastJsonb == <<":", ":", "j", "s", "o", "n", "b">>

\* the results dict, without the 'details' texts derived from the other fields
JsonResults(operators_found, functions_found, type_casts) ==
    [contains_json   |-> operators_found # <<>> \/ functions_found # <<>>
                            \/ type_casts # <<>>,
     operators_found |-> operators_found,
     functions_found |-> functions_found,
     type_casts      |-> type_casts]

\* the functions found in the text, lowered is sql_query.lower()
FunctionsFound(lowered) ==
    SelectSeq(json_functions, LAMBDA func : Contains(lowered, lower(func)))

analyze_json_operations(sql) ==
    JsonResults(SelectSeq(json_operators, LAMBDA op : Contains(sql, op)),
                FunctionsFound(lower(sql)),
                (IF Contains(sql, CastJson) THEN <<CastJson>> ELSE <<>>)
                   \o (IF Contains(sql, CastJsonb) THEN <<CastJsonb>> ELSE <<>>))

has_json(sql) == analyze_json_operations(sql).contains_json

-----------------------------------------------------------------------------
(* mindsdb_sql_tool.py: MindsDBSQLParserTool._query_options and _run *)

EscapedUnderscore == <<"\\", "_">>
ValidPrefix == <<"v", "a", "l", "i", "d", " ", "q", "u", "e", "r", "y", ":", " ">>
InvalidPrefix == <<"i", "n", "v", "a", "l", "i", "d", " ", "q", "u", "e", "r", "y", ",", " ", "w", "i", "t", "h", " ", "e", "r", "r", "o", "r", ":", " ">>

\* a generator that yields the unescaped variant before the query as it is
QueryOptionsUnescapedFirst(q) ==
    (IF Contains(q, EscapedUnderscore)
     THEN <<replace(q, EscapedUnderscore, <<"_">>)>> ELSE <<>>) \o <<q>>

\* the values the generator _query_options(query) yields, in order
QueryOptions(q) ==
    <<q>> \o (IF Contains(q, EscapedUnderscore)
              THEN <<replace(q, EscapedUnderscore, <<"_">>)>> ELSE <<>>)

\* The external parser.  parse_sql(query, dialect='mindsdb') followed by
\* to_string() either gives a canonical text or raises with a message; which, and
\* what text, is the parser's choice.  Each call is recorded in parse_calls.
ParserTexts == {<<"t", "1">>, <<"t", "2">>}

ParseCall(q, ok, out) == [text |-> q, ok |-> ok, out |-> out]

-----------------------------------------------------------------------------
(* Specification SpecRun: one call of MindsDBSQLParserTool._run *)

MaxRunPieces == 3
RunPieces == {<<Backtick>>, <<Backtick, Backtick, Backtick, "s", "q", "l">>, <<";">>, <<"\"", "\"", "\"">>, <<"\\", "_">>, <<"-", ">">>, <<"F", "R", "O", "M", " ", "a", ".", "t">>}

InitRun ==
    /\ pc = "run"
    /\ query \in Texts(RunPieces, MaxRunPieces)
    /\ clean_query = None
    /\ option = 0
    /\ parse_calls = <<>>
    /\ error = None
    /\ result = None
    /\ sql_query = None /\ returned = None /\ returned2 = None

\* clean_query = self._clean_query(query)
RunClean ==
    /\ pc = "run"
    /\ clean_query' = CleanQuery(query)
    /\ pc' = "has_json"
    /\ UNCHANGED <<query, option, parse_calls, error, result, sql_query, returned, returned2>>

\* if has_json(clean_query): clean_query = transform_query(clean_query)
RunTransform ==
    /\ pc = "has_json"
    /\ has_json(clean_query)
    /\ clean_query' = transform_query(clean_query)
    /\ pc' = "options"
    /\ UNCHANGED <<query, option, parse_calls, error, result, sql_query, returned, returned2>>

RunNoJson ==
    /\ pc = "has_json"
    /\ ~has_json(clean_query)
    /\ pc' = "options"
    /\ UNCHANGED <<query, clean_query, option, parse_calls, error, result,
                   sql_query, returned, returned2>>

\* for query in self._query_options(clean_query): the generator yields its next value
NextOption ==
    /\ pc = "options"
    /\ option < Len(QueryOptions(clean_query))
    /\ option' = option + 1
    /\ query' = QueryOptions(clean_query)[option + 1]
    /\ pc' = "parse"
    /\ UNCHANGED <<clean_query, parse_calls, error, result, sql_query, returned, returned2>>

\* the try block raises: error is set and the loop continues, keeping the first error
ParseRejectedKeepsFirstError ==
    /\ pc = "parse"
    /\ \E e \in ParserTexts :
          /\ parse_calls' = Append(parse_calls, ParseCall(query, FALSE, e))
          /\ error' = IF error = None THEN InvalidPrefix \o e ELSE error
    /\ pc' = "options"
    /\ UNCHANGED <<query, clean_query, option, result, sql_query, returned, returned2>>

\* the try block succeeds: return "valid query: " + ast_query.to_string()
ParseAccepted ==
    /\ pc = "parse"
    /\ \E canonical \in ParserTexts :
          /\ parse_calls' = Append(parse_calls, ParseCall(query, TRUE, canonical))
          /\ result' = ValidPrefix \o canonical
    /\ pc' = "done"
    /\ UNCHANGED <<query, clean_query, option, error, sql_query, returned, returned2>>

\* the try block raises e: error = "invalid query, with error: " + str(e); continue
ParseRejected ==
    /\ pc = "parse"
    /\ \E e \in ParserTexts :
          /\ parse_calls' = Append(parse_calls, ParseCall(query, FALSE, e))
          /\ error' = InvalidPrefix \o e
    /\ pc' = "options"
    /\ UNCHANGED <<query, clean_query, option, result, sql_query, returned, returned2>>

\* the generator is exhausted: return error
ReturnError ==
    /\ pc = "options"
    /\ option = Len(QueryOptions(clean_query))
    /\ result' = error
    /\ pc' = "done"
    /\ UNCHANGED <<query, clean_query, option, parse_calls, error, sql_query, returned, returned2>>

NextRun ==
    \/ RunClean
    \/ RunTransform
    \/ RunNoJson
    \/ NextOption
    \/ ParseAccepted
    \/ ParseRejected
    \/ ReturnError

SpecRun == InitRun /\ [][NextRun]_vars

\* the text with every backslash-underscore replaced by an underscore: the
\* backslash of each occurrence taken out
Unescaped(s) ==
    LET occ == [q \in 1..Len(s) |->
                  IF MatchAt(s, q, EscapedUnderscore) THEN Len(EscapedUnderscore) ELSE 0]
    IN  Deleted(s, Starts(occ))

Looping == pc \in {"options", "parse", "done"}
NCalls == Len(parse_calls)

\* C1: the parser is offered the cleaned (possibly transformed) query as it is
\* first and then, only if that text holds a backslash-underscore, the unescaped
\* variant; nothing is parsed after a candidate the parser accepts, and the run
\* then ends with "valid query: " and the canonical text of that candidate.
C1_FirstAcceptedCandidateWins ==
    /\ ~Looping => parse_calls = <<>>
    /\ Looping =>
          /\ NCalls <= 2
          /\ NCalls >= 1 => parse_calls[1].text = clean_query
          /\ NCalls >= 2 =>
                /\ Contains(clean_query, EscapedUnderscore)
                /\ parse_calls[2].text = Unescaped(clean_query)
          /\ \A i \in 1..(NCalls - 1) : ~parse_calls[i].ok
          /\ NCalls >= 1 /\ parse_calls[NCalls].ok =>
                pc = "done" /\ result = ValidPrefix \o parse_calls[NCalls].out

\* the query as it is was rejected, the unescaped variant accepted
C1_Witness ==
    /\ pc = "done"
    /\ NCalls = 2
    /\ ~parse_calls[1].ok
    /\ parse_calls[2].ok
    /\ parse_calls[2].text # parse_calls[1].text
    /\ result = ValidPrefix \o parse_calls[2].out

AllRejected == \A i \in 1..NCalls : ~parse_calls[i].ok

\* C2: a run ends with a result (the `error` it returns is bound, the loop having
\* tried at least one candidate); when the parser rejected every candidate
\* it is "invalid query, with error: " and the diagnostic of the last candidate
\* tried: the unescaped variant when there are two candidates, the query as it
\* is when there is one.
C2_LastErrorReturned ==
    /\ pc = "done" => result # None
    /\ pc = "done" /\ AllRejected =>
          /\ NCalls = IF Contains(clean_query, EscapedUnderscore) THEN 2 ELSE 1
          /\ parse_calls[NCalls].text =
                IF Contains(clean_query, EscapedUnderscore)
                THEN Unescaped(clean_query) ELSE clean_query
          /\ result = InvalidPrefix \o parse_calls[NCalls].out

\* both candidates rejected, with different diagnostics
C2_Witness ==
    /\ pc = "done"
    /\ NCalls = 2
    /\ AllRejected
    /\ parse_calls[1].out # parse_calls[2].out
    /\ result = InvalidPrefix \o parse_calls[2].out

EndsWith(s, lit) == MatchAt(s, Len(s) - Len(lit) + 1, lit)

\* C6 as claimed: the text that reaches the JSON detector and the transformer
\* holds no code fence, no triple quote and no trailing semicolon.
C6_DetectorSeesStrippedText ==
    pc = "has_json" =>
        /\ ~Contains(clean_query, Fence)
        /\ ~Contains(clean_query, TripleQuote)
        /\ ~EndsWith(clean_query, <<";">>)

\* C6 as amended: the text that reaches the JSON detector and the transformer
\* holds no code fence (no three consecutive backticks); triple quotes and
\* semicolons are still in it.
C6_DetectorSeesNoFence ==
    pc = "has_json" => ~Contains(clean_query, Fence)

\* a fenced query with a triple quote reaches the detector without the fence
C6_Witness ==
    /\ pc = "has_json"
    /\ Contains(query, Fence)
    /\ Contains(clean_query, TripleQuote)
    /\ EndsWith(clean_query, <<";">>)

-----------------------------------------------------------------------------
(* json_detector.py: check_date_functions, has_date_functions *)

date_functions ==
    <<<<"C", "U", "R", "R", "E", "N", "T", "_", "D", "A", "T", "E">>, <<"C", "U", "R", "R", "E", "N", "T", "_", "T", "I", "M", "E">>, <<"C", "U", "R", "R", "E", "N", "T", "_", "T", "I", "M", "E", "S", "T", "A", "M", "P">>, <<"L", "O", "C", "A", "L", "T", "I", "M", "E">>,
      <<"L", "O", "C", "A", "L", "T", "I", "M", "E", "S", "T", "A", "M", "P">>, <<"N", "O", "W">>,
      <<"M", "A", "K", "E", "_", "D", "A", "T", "E">>, <<"M", "A", "K", "E", "_", "T", "I", "M", "E">>, <<"M", "A", "K", "E", "_", "T", "I", "M", "E", "S", "T", "A", "M", "P">>, <<"M", "A", "K", "E", "_", "T", "I", "M", "E", "S", "T", "A", "M", "P", "T", "Z">>,
      <<"D", "A", "T", "E", "_", "P", "A", "R", "T">>, <<"D", "A", "T", "E", "_", "T", "R", "U", "N", "C">>, <<"E", "X", "T", "R", "A", "C", "T">>, <<"C", "E", "N", "T", "U", "R", "Y">>, <<"D", "E", "C", "A", "D", "E">>, <<"E", "P", "O", "C", "H">>, <<"Y", "E", "A", "R">>,
      <<"M", "O", "N", "T", "H">>, <<"D", "A", "Y">>, <<"H", "O", "U", "R">>, <<"M", "I", "N", "U", "T", "E">>, <<"S", "E", "C", "O", "N", "D">>, <<"M", "I", "L", "L", "I", "S", "E", "C", "O", "N", "D">>, <<"M", "I", "C", "R", "O", "S", "E", "C", "O", "N", "D">>,
      <<"T", "O", "_", "C", "H", "A", "R">>, <<"T", "O", "_", "D", "A", "T", "E">>, <<"T", "O", "_", "T", "I", "M", "E", "S", "T", "A", "M", "P">>,
      <<"A", "G", "E">>, <<"D", "A", "T", "E", "_", "B", "I", "N">>, <<"J", "U", "S", "T", "I", "F", "Y", "_", "D", "A", "Y", "S">>, <<"J", "U", "S", "T", "I", "F", "Y", "_", "H", "O", "U", "R", "S">>, <<"J", "U", "S", "T", "I", "F", "Y", "_", "I", "N", "T", "E", "R", "V", "A", "L">>,
      <<"T", "I", "M", "E", "Z", "O", "N", "E">>, <<"A", "T", " ", "T", "I", "M", "E", " ", "Z", "O", "N", "E">>,
      <<"I", "N", "T", "E", "R", "V", "A", "L">>>>

\* the regular expression assertion \b before position p of s
WordBoundary(s, p) ==
    (p - 1 >= 1 /\ p - 1 <= Len(s) /\ IsWord(s[p - 1])) # (p <= Len(s) /\ IsWord(s[p]))

\* r'\b(' + '|'.join(date_functions) + r')\b' with re.IGNORECASE matches at
\* position p of s, whose upper-cased text is up
date_pattern(s, up, p) ==
    /\ WordBoundary(s, p)
    /\ \E k \in DOMAIN date_functions :
          /\ MatchAt(up, p, date_functions[k])
          /\ WordBoundary(s, p + Len(date_functions[k]))

\* len(matches) > 0 for the matches of the pattern on s
HasDateMatch(s, up) == \E p \in 1..Len(s) : date_pattern(s, up, p)

\* the 'has_date_functions' entry of the results
check_date_functions(sql) == [has_date_functions |-> HasDateMatch(sql, upper(sql))]

has_date_functions(sql) == check_date_functions(sql).has_date_functions

-----------------------------------------------------------------------------
(* json_detector.py: check_inner_joins, has_inner_joins *)

\* The pieces of the patterns below take a position of s and give the position
\* after what they match, 0 when they do not match; given 0 they give 0, so that
\* a sequence of pieces is the composition of their operators.

\* the number of whitespace characters of s from position p on.  The patterns
\* run on normalized_query, where whitespace is single spaces, so a shorter
\* \s+ is never an alternative.
SpaceRun(s, p) ==
    Least({n \in 0..(Len(s) + 1) : p + n > Len(s) \/ ~IsSpace(s[p + n])})

\* \s+ at position p
Spaces1(s, p) == IF p # 0 /\ SpaceRun(s, p) >= 1 THEN p + SpaceRun(s, p) ELSE 0

\* \s* at position p
Spaces0(s, p) == IF p # 0 THEN p + SpaceRun(s, p) ELSE 0

\* the literal lit at position p
Lit(s, p, lit) == IF MatchAt(s, p, lit) THEN p + Len(lit) ELSE 0

\* \w+ at position p: greedy, and what follows it in the patterns cannot start
\* with \w, so a shorter \w+ is never an alternative
Word(s, p) == IF p # 0 /\ WordRun(s, p) >= 1 THEN p + WordRun(s, p) ELSE 0

\* \s+ followed by the literal lit at position p
SpacesThen(s, p, lit) == Lit(s, Spaces1(s, p), lit)

JoinKinds == <<<<"I", "N", "N", "E", "R">>, <<"L", "E", "F", "T">>, <<"R", "I", "G", "H", "T">>, <<"F", "U", "L", "L">>, <<"C", "R", "O", "S", "S">>>>
JoinKeyword == <<"J", "O", "I", "N">>

\* \s+(?:INNER|LEFT|RIGHT|FULL|CROSS)\s+JOIN at position p
NextJoinAt(s, p) ==
    LET ends == {SpacesThen(s, SpacesThen(s, p, JoinKinds[k]), JoinKeyword) :
                    k \in DOMAIN JoinKinds} \ {0}
    IN  IF ends = {} THEN 0 ELSE Least(ends)

\* the clause words that end a condition, after \s+
JoinEnders == <<<<"W", "H", "E", "R", "E">>, <<"G", "R", "O", "U", "P">>, <<"O", "R", "D", "E", "R">>, <<"L", "I", "M", "I", "T">>>>
CommaJoinEnders == <<<<"G", "R", "O", "U", "P">>, <<"O", "R", "D", "E", "R">>, <<"L", "I", "M", "I", "T">>>>

\* the alternatives \s+WHERE|\s+GROUP|... of `enders` and $ at position p
EnderAt(s, p, enders) ==
    LET K == {k \in DOMAIN enders : SpacesThen(s, p, enders[k]) # 0}
    IN  IF K # {} THEN SpacesThen(s, p, enders[Least(K)])
        ELSE IF p = Len(s) + 1 THEN p
        ELSE 0

\* (?:\s+(?:INNER|LEFT|RIGHT|FULL|CROSS)\s+JOIN|\s+WHERE|\s+GROUP|\s+ORDER|\s+LIMIT|$) at p
JoinTerminator(s, p) ==
    IF NextJoinAt(s, p) # 0 THEN NextJoinAt(s, p) ELSE EnderAt(s, p, JoinEnders)

\* (?:\s+GROUP|\s+ORDER|\s+LIMIT|$) at p
CommaJoinTerminator(s, p) == EnderAt(s, p, CommaJoinEnders)

\* ([^;]+?) from position c, followed by a terminator: the lazy group takes the
\* fewest characters, none of them a semicolon, after which the terminator
\* matches.  term[e] is the position after the terminator at e, or 0.
\* Gives <<c, position after the condition, position after the terminator>>,
\* or <<0, 0, 0>>.
ConditionAt(s, c, term) ==
    LET E == {e \in (c + 1)..(Len(s) + 1) :
                 /\ \A i \in c..(e - 1) : s[i] # ";"
                 /\ term[e] # 0}
    IN  IF c = 0 \/ E = {} THEN <<0, 0, 0>> ELSE <<c, Least(E), term[Least(E)]>>

\* \s+AS\s+ at position p: the position where the alias starts
AliasStart(s, p) == Spaces1(s, SpacesThen(s, p, <<"A", "S">>))

\* \s+AS\s+(\w+) at position p
AliasEnd(s, p) == Word(s, AliasStart(s, p))

\* \s+ON\s+([^;]+?)(?:terminator) at position p
OnConditionAt(s, p, term) == ConditionAt(s, Spaces1(s, SpacesThen(s, p, <<"O", "N">>)), term)

\* the match that starts at p, with the table name at t..e - 1, the alias given
\* and the condition and the end given by on
JoinHit(s, p, t, e, alias, on) ==
    [start |-> p, end |-> on[3],
     groups |-> <<SubSeq(s, t, e - 1), alias, SubSeq(s, on[1], on[2] - 1)>>]

\* (?:\s+AS\s+(\w+))?\s+ON\s+([^;]+?)(?:terminator) after the table name at
\* t..e - 1, for a match that starts at p.  The optional alias is greedy: the form
\* with it is tried first.
JoinAfterTable(s, p, t, e, term) ==
    IF e = 0 THEN NoMatch
    ELSE IF OnConditionAt(s, AliasEnd(s, e), term)[1] # 0
    THEN JoinHit(s, p, t, e, SubSeq(s, AliasStart(s, e), AliasEnd(s, e) - 1),
                 OnConditionAt(s, AliasEnd(s, e), term))
    ELSE IF OnConditionAt(s, e, term)[1] # 0
    THEN JoinHit(s, p, t, e, None, OnConditionAt(s, e, term))
    ELSE NoMatch

\* \s+(\w+)(?:\s+AS\s+(\w+))?\s+ON\s+([^;]+?)(?:terminator) from position j, the
\* position after JOIN, for a match that starts at p
JoinClauseAt(s, p, j, term) ==
    JoinAfterTable(s, p, Spaces1(s, j), Word(s, Spaces1(s, j)), term)

\* join_patterns[0], INNER\s+JOIN\s+..., at position p
inner_join_pattern(s, p, term) ==
    JoinClauseAt(s, p, SpacesThen(s, Lit(s, p, <<"I", "N", "N", "E", "R">>), JoinKeyword), term)

\* join_patterns[1], \sJOIN\s+..., at position p
join_pattern(s, p, term) ==
    IF p <= Len(s) /\ IsSpace(s[p])
    THEN JoinClauseAt(s, p, Lit(s, p + 1, JoinKeyword), term)
    ELSE NoMatch

\* \s+WHERE\s+([^;]+?)(?:terminator) at position p
WhereConditionAt(s, p, term) ==
    ConditionAt(s, Spaces1(s, SpacesThen(s, p, <<"W", "H", "E", "R", "E">>)), term)

\* (?:\s+AS\s+\w+)?\s+WHERE\s+([^;]+?)(?:terminator) after the second table
\* name, which ends at e: the form with the alias first
CommaAfterTable(s, e, term) ==
    IF WhereConditionAt(s, AliasEnd(s, e), term)[1] # 0
    THEN WhereConditionAt(s, AliasEnd(s, e), term)
    ELSE WhereConditionAt(s, e, term)

\* \s*,\s* at position p: the position where the second table name starts
SecondTable(s, p) == Spaces0(s, Lit(s, Spaces0(s, p), <<",">>))

\* \s*,\s*(\w+)(?:\s+AS\s+\w+)?\s+WHERE\s+([^;]+?)(?:terminator) at position p:
\* the second table name and the condition
CommaTail(s, p, term) ==
    [table |-> <<SecondTable(s, p), Word(s, SecondTable(s, p))>>,
     where |-> CommaAfterTable(s, Word(s, SecondTable(s, p)), term)]

\* the match that starts at p, with the first table name at t..e - 1
CommaHit(s, p, t, e, tail) ==
    [start |-> p, end |-> tail.where[3],
     groups |-> <<SubSeq(s, t, e - 1),
                  SubSeq(s, tail.table[1], tail.table[2] - 1),
                  SubSeq(s, tail.where[1], tail.where[2] - 1)>>]

\* what follows the first table name at t..e - 1, after its alias (with_alias)
\* or directly (without): the form with the alias first
CommaChoice(s, p, t, e, with_alias, without) ==
    IF e = 0 THEN NoMatch
    ELSE IF with_alias.where[1] # 0 THEN CommaHit(s, p, t, e, with_alias)
    ELSE IF without.where[1] # 0 THEN CommaHit(s, p, t, e, without)
    ELSE NoMatch

\* (\w+)(?:\s+AS\s+\w+)?\s*,\s*(\w+)(?:\s+AS\s+\w+)?\s+WHERE\s+([^;]+?)(?:...)
\* with the first table name at t..e - 1
CommaAfterFrom(s, p, t, e, term) ==
    CommaChoice(s, p, t, e, CommaTail(s, AliasEnd(s, e), term), CommaTail(s, e, term))

\* join_patterns[2],
\* FROM\s+(\w+)(?:\s+AS\s+\w+)?\s*,\s*(\w+)(?:\s+AS\s+\w+)?\s+WHERE\s+([^;]+?)(?:...),
\* at position p
comma_join_pattern(s, p, term) ==
    CommaAfterFrom(s, p, Spaces1(s, Lit(s, p, <<"F", "R", "O", "M">>)),
                   Word(s, Spaces1(s, Lit(s, p, <<"F", "R", "O", "M">>))), term)

\* join_patterns[k - 1] at position p of s; terms[k] gives its terminator
join_patterns(k, s, p, terms) ==
    CASE k = 1 -> inner_join_pattern(s, p, terms[1])
      [] k = 2 -> join_pattern(s, p, terms[2])
      [] k = 3 -> comma_join_pattern(s, p, terms[3])

\* re.finditer(pattern, normalized_query) from position pos on: the leftmost
\* non-overlapping matches, each search starting where the last match ended
RECURSIVE finditer(_, _, _, _)
finditer(k, s, pos, terms) ==
    LET at == [q \in pos..Len(s) |-> join_patterns(k, s, q, terms)]
        P  == {q \in pos..Len(s) : at[q] # NoMatch}
    IN  IF P = {} THEN <<>>
        ELSE <<at[Least(P)]>> \o finditer(k, s, at[Least(P)].end, terms)

ConditionClauses ==
    <<<<"I", "N", "N", "E", "R", " ", "J", "O", "I", "N">>, <<"L", "E", "F", "T", " ", "J", "O", "I", "N">>, <<"R", "I", "G", "H", "T", " ", "J", "O", "I", "N">>, <<"F", "U", "L", "L", " ", "J", "O", "I", "N">>, <<"C", "R", "O", "S", "S", " ", "J", "O", "I", "N">>,
      <<"W", "H", "E", "R", "E">>, <<"G", "R", "O", "U", "P", " ", "B", "Y">>, <<"O", "R", "D", "E", "R", " ", "B", "Y">>, <<"L", "I", "M", "I", "T">>>>

\* the loop of clean_condition from the k-th clause on
RECURSIVE CutClauses(_, _)
CutClauses(condition_text, k) ==
    IF k > Len(ConditionClauses) THEN condition_text
    ELSE LET p == Find(condition_text, <<" ">> \o ConditionClauses[k] \o <<" ">>, 1)
         IN  CutClauses(IF p # 0 THEN SubSeq(condition_text, 1, p - 1) ELSE condition_text,
                        k + 1)

clean_condition(condition_text) == strip(CutClauses(condition_text, 1))

\* the dict appended to join_details for a match on s
JoinDetail(s, match) ==
    LET group0 == SubSeq(s, match.start, match.end - 1)
    IN  IF MatchAt(group0, 1, <<"F", "R", "O", "M">>)
        THEN [type      |-> <<"i", "m", "p", "l", "i", "c", "i", "t", "_", "c", "o", "m", "m", "a">>,
              tables    |-> <<match.groups[1], match.groups[2]>>,
              condition |-> clean_condition(match.groups[3]),
              position  |-> match.start - 1]
        ELSE [type      |-> IF Contains(group0, <<"I", "N", "N", "E", "R", " ", "J", "O", "I", "N">>) THEN <<"e", "x", "p", "l", "i", "c", "i", "t">> ELSE <<"i", "m", "p", "l", "i", "c", "i", "t">>,
              table     |-> match.groups[1],
              alias     |-> match.groups[2],
              condition |-> clean_condition(match.groups[3]),
              position  |-> match.start - 1]

\* join_details.sort(key=lambda x: x['position']): the sort is stable
RECURSIVE SortedByPosition(_)
SortedByPosition(details) ==
    IF details = <<>> THEN <<>>
    ELSE LET x    == details[Len(details)]
             rest == SortedByPosition(SubSeq(details, 1, Len(details) - 1))
             n    == Cardinality({i \in DOMAIN rest : rest[i].position <= x.position})
         IN  SubSeq(rest, 1, n) \o <<x>> \o SubSeq(rest, n + 1, Len(rest))

\* the terminator of each pattern at each position of s
JoinTerminators(s) ==
    <<[e \in 1..(Len(s) + 1) |-> JoinTerminator(s, e)],
      [e \in 1..(Len(s) + 1) |-> JoinTerminator(s, e)],
      [e \in 1..(Len(s) + 1) |-> CommaJoinTerminator(s, e)]>>

\* for pattern in join_patterns: for match in re.finditer(pattern, normalized_query)
JoinMatches(s, terms) ==
    finditer(1, s, 1, terms) \o finditer(2, s, 1, terms) \o finditer(3, s, 1, terms)

\* the dict check_inner_joins returns, from the matches on normalized_query
JoinResults(normalized_query, matches) ==
    [has_inner_joins  |-> Len(matches) > 0,
     join_count       |-> Len(matches),
     join_details     |-> SortedByPosition([i \in DOMAIN matches |->
                                               JoinDetail(normalized_query, matches[i])]),
     normalized_query |-> normalized_query]

\* check_inner_joins on the text already normalized
CheckNormalized(normalized_query) ==
    JoinResults(normalized_query,
                JoinMatches(normalized_query, JoinTerminators(normalized_query)))

check_inner_joins(sql) == CheckNormalized(upper(join(<<" ">>, split(strip(sql)))))

has_inner_joins(sql) == check_inner_joins(sql).has_inner_joins

\* a decision that consults the JSON detector alone
needs_native_query_json_only(sql) == has_json(sql)

needs_native_query(sql) ==
    has_date_functions(sql) \/ has_json(sql) \/ has_inner_joins(sql)

-----------------------------------------------------------------------------
(* Specification SpecJoins: check_inner_joins applied to a text *)

MaxJoinPieces == 2
JoinPieces ==
    {<<"S", "E", "L", "E", "C", "T", " ", "*", " ", "F", "R", "O", "M", " ", "t", "1">>, <<" ", "I", "N", "N", "E", "R", " ", "J", "O", "I", "N", " ", "t", "2", " ", "O", "N", " ", "t", "1", ".", "i", "d", " ", "=", " ", "t", "2", ".", "i", "d">>,
     <<" ", "J", "O", "I", "N", " ", "t", "3", " ", "A", "S", " ", "x", " ", "O", "N", " ", "t", "2", ".", "i", "d", " ", "=", " ", "x", ".", "i", "d">>, <<" ", "L", "E", "F", "T", " ", "J", "O", "I", "N", " ", "t", "4", " ", "O", "N", " ", "u", " ", "=", " ", "v">>,
     <<",", " ", "t", "5", " ", "W", "H", "E", "R", "E", " ", "t", "1", ".", "i", "d", " ", "=", " ", "t", "5", ".", "i", "d">>, <<" ", "W", "H", "E", "R", "E", " ", "v", " ", ">", " ", "1", "0">>, <<" ", "G", "R", "O", "U", "P", " ", "B", "Y", " ", "g">>, <<";">>}

InnerJoinExample == <<"S", "E", "L", "E", "C", "T", " ", "*", " ", "F", "R", "O", "M", " ", "t", "1", " ", "I", "N", "N", "E", "R", " ", "J", "O", "I", "N", " ", "t", "2", " ", "O", "N", " ", "t", "1", ".", "i", "d", " ", "=", " ", "t", "2", ".", "i", "d">>
MultipleJoinsExample ==
    <<"\n", "S", "E", "L", "E", "C", "T", " ", "*", " ", "F", "R", "O", "M", " ", "t", "a", "b", "l", "e", "1", "\n", "I", "N", "N", "E", "R", " ", "J", "O", "I", "N", " ", "t", "a", "b", "l", "e", "2", " ", "O", "N", " ", "t", "a", "b", "l", "e", "1", ".", "i", "d", " ", "=", " ", "t", "a", "b", "l", "e", "2", ".", "i", "d", "\n", "J", "O", "I", "N", " ", "t", "a", "b", "l", "e", "3", " ", "A", "S", " ", "t", "3", " ", "O", "N", " ", "t", "a", "b", "l", "e", "2", ".", "i", "d", " ", "=", " ", "t", "3", ".", "i", "d", "\n", "W", "H", "E", "R", "E", " ", "t", "3", ".", "v", "a", "l", "u", "e", " ", ">", " ", "1", "0", "\n">>

InitJoins ==
    /\ pc = "check_inner_joins"
    /\ sql_query \in Texts(JoinPieces, MaxJoinPieces) \cup {MultipleJoinsExample}
    /\ returned = None /\ returned2 = None
    /\ query = None /\ clean_query = None
    /\ option = 0 /\ parse_calls = <<>> /\ error = None /\ result = None

CheckInnerJoins ==
    /\ pc = "check_inner_joins"
    /\ returned' = check_inner_joins(sql_query)
    /\ pc' = "checked"
    /\ UNCHANGED <<query, clean_query, option, parse_calls, error, result, sql_query, returned2>>

NextJoins == CheckInnerJoins

SpecJoins == InitJoins /\ [][NextJoins]_vars

\* the number of positions of s where lit occurs
Occurrences(s, lit) == Cardinality({p \in 1..Len(s) : MatchAt(s, p, lit)})

\* the only join of the query is one INNER JOIN ... ON ... clause
OnlyOneInnerJoin(sql) ==
    /\ Occurrences(upper(sql), JoinKeyword) = 1
    /\ Occurrences(upper(sql), <<" ", "I", "N", "N", "E", "R", " ", "J", "O", "I", "N", " ">>) = 1
    /\ Occurrences(upper(sql), <<" ", "O", "N", " ">>) = 1
    /\ ~Contains(sql, <<",">>)

\* C8: for a query whose only join is one INNER JOIN <table> ON <condition>,
\* check_inner_joins reports has_inner_joins, a join_count of 1 and exactly one
\* descriptor, of type explicit; for the example its table is T2 and its
\* condition T1.ID = T2.ID.
C8_SingleInnerJoinReportedOnce ==
    /\ pc = "checked" /\ OnlyOneInnerJoin(sql_query) =>
          /\ returned.has_inner_joins
          /\ returned.join_count = 1
          /\ Len(returned.join_details) = 1
          /\ returned.join_details[1].type = <<"e", "x", "p", "l", "i", "c", "i", "t">>
    /\ pc = "checked" /\ sql_query = InnerJoinExample =>
          /\ returned.join_details[1].table = <<"T", "2">>
          /\ returned.join_details[1].condition = <<"T", "1", ".", "I", "D", " ", "=", " ", "T", "2", ".", "I", "D">>

\* lit occurs in s as a word of its own
ContainsWord(s, lit) ==
    \E p \in 1..Len(s) :
        MatchAt(s, p, lit) /\ WordBoundary(s, p) /\ WordBoundary(s, p + Len(lit))

\* C10: no reported condition holds a following join clause (a bare JOIN
\* included) or a WHERE, GROUP, ORDER or LIMIT clause.
C10_ConditionEndsAtNextClause ==
    pc = "checked" =>
        \A i \in DOMAIN returned.join_details :
            \A k \in DOMAIN JoinEnders \cup {0} :
                ~ContainsWord(returned.join_details[i].condition,
                              IF k = 0 THEN JoinKeyword ELSE JoinEnders[k])

-----------------------------------------------------------------------------
(* Specification SpecDetect: needs_native_query applied to a text *)

MaxDetectPieces == 3
DetectPieces ==
    {<<"S", "E", "L", "E", "C", "T", " ", "c", " ", "F", "R", "O", "M", " ", "t", "1">>, <<",", " ", "t", "2", " ", "W", "H", "E", "R", "E", " ", "c", " ", "=", " ", "1">>, <<" ", "J", "O", "I", "N", " ", "t", "2", " ", "O", "N", " ", "c", " ", "=", " ", "1">>, <<" ", "n", "o", "w", "(", ")">>, <<" ", "t", "o", "d", "a", "y">>,
     <<"-", ">", ">", "'", "k", "'">>, <<":", ":", "j", "s", "o", "n", "b">>, <<" ", "j", "s", "o", "n", "_", "o", "b", "j", "e", "c", "t", "(", "c", ")">>}

InitDetect ==
    /\ pc = "needs_native_query"
    /\ sql_query \in Texts(DetectPieces, MaxDetectPieces)
    /\ returned = None /\ returned2 = None
    /\ query = None /\ clean_query = None
    /\ option = 0 /\ parse_calls = <<>> /\ error = None /\ result = None

NeedsNativeQuery ==
    /\ pc = "needs_native_query"
    /\ returned' = needs_native_query(sql_query)
    /\ pc' = "decided"
    /\ UNCHANGED <<query, clean_query, option, parse_calls, error, result, sql_query, returned2>>

NextDetect == NeedsNativeQuery

SpecDetect == InitDetect /\ [][NextDetect]_vars

\* none of the texts of list occurs in s
NoneIn(s, list) == \A k \in DOMAIN list : ~Contains(s, list[k])

NoDateKeyword(s) == NoneIn(upper(s), date_functions)

NoJson(s) ==
    /\ NoneIn(s, json_operators)
    /\ NoneIn(lower(s), json_functions)
    /\ ~Contains(s, CastJson)

NoJoinKeyword(s) == ~Contains(upper(s), JoinKeyword)

\* no FROM that a comma and then a WHERE follow
CommaBetween(up) ==
    \E f \in 1..Len(up) :
        /\ MatchAt(up, f, <<"F", "R", "O", "M">>)
        /\ \E c \in (f + 1)..Len(up) :
              up[c] = "," /\ Find(up, <<"W", "H", "E", "R", "E">>, c + 1) # 0

NoCommaJoin(s) == ~CommaBetween(upper(s))

OrOfDetectors ==
    returned = (has_date_functions(sql_query) \/ has_json(sql_query)
                   \/ has_inner_joins(sql_query))

====
